---- MODULE Spec2Model ----
(***************************************************************************)
(* Model of the two scripts of freenas-utils.                              *)
(*                                                                         *)
(*   conditionalshutdown.py  polls a list of hosts and powers the machine  *)
(*                           off when none of them answered during         *)
(*                           REQUIRED_OFFLINE_SECONDS  (Spec, FairSpec).   *)
(*   syncdir_rsynctasks.py   runs one rsync per entry of TASKS and keeps   *)
(*                           the output of each in a log file (SyncSpec).  *)
(*                                                                         *)
(* Both scripts are sequential programs.  Each action below is one step of *)
(* the script: one external command with what the script does with its     *)
(* result, one sleep, or one test.  The environment (the exit status and   *)
(* the duration of the external commands, whether they can be launched at  *)
(* all) is chosen with \E.                                                 *)
(***************************************************************************)
EXTENDS Integers, Sequences, FiniteSets, TLC

(***************************************************************************)
(* Bounds of the model.  Times of conditionalshutdown.py are in seconds.   *)
(***************************************************************************)
MaxRequired ==
    7
MaxInterval ==
    3
MaxHosts ==
    2
MaxProbeDur ==
    1
MaxOversleep ==
    1

VARIABLES
    \* ---- conditionalshutdown.py ----
    REQUIRED_OFFLINE_SECONDS,   \* line 76
    POLLING_INTERVAL_SECONDS,   \* line 81
    nHosts,                     \* len(HOSTS_TO_CHECK), lines 57-61
    pc,                         \* where the script is
    host,                       \* index of the next host of the running round
    round,                      \* rounds of exit_if_any_host_up started
    now,                        \* time.time()
    deadline,                   \* local `deadline` of main(), NoDeadline before
    rc,                         \* local `rc` of host_responding: the last ping's status
    shutdownRc,                 \* returncode of the shutdown command
    exitStatus,                 \* exit status of the process, NoExit while running
    failedCmd,                  \* command whose launch raised OSError
    \* history of the run (written, never read by the script)
    probes,                     \* ping commands started
    sleeps,                     \* time.sleep calls
    deadRounds,                 \* rounds that returned with every host down
    shutdownCalls,              \* run_subprocess(['/sbin/shutdown', ...]) calls
    deadlineSets,               \* assignments to `deadline`
    lastOp,                     \* the last step taken
    aliveProbes,                \* ping commands that exited with status 0
    downHosts,                  \* hosts a ping has found down so far
    probed,                     \* pings of the round since the last sleep, in order
    firstRoundEnd,              \* time at which the first round returned
    \* ---- syncdir_rsynctasks.py ----
    TASKS,                      \* lines 40-71: sequence of (name, source, target)
    dirs,                       \* the directories that exist (os.path.isdir)
    spc,                        \* where the script is
    run,                        \* which invocation of the script this is
    k,                          \* index of the task being set up or run
    tasks,                      \* the SyncDirTask objects built so far
    clock,                      \* time(), in ticks of 1/TicksPerSecond s
    files,                      \* RSYNC_LOGFILES_DIR: file name -> lines
    syncExit,                   \* exit status of the process, NoExit while running
    \* history (written, never read by the script)
    invoked,                    \* this run: indices of the tasks whose rsync was called
    outcome,                    \* this run: result of call() of each task so far
    summary,                    \* this run: lines each task wrote after rsync
    logpaths,                   \* this run: file name each task opened
    openCount,                  \* open(logpath, "w") calls of all runs
    openedPaths                 \* the file names those calls opened

sdVars == <<REQUIRED_OFFLINE_SECONDS, POLLING_INTERVAL_SECONDS, nHosts, pc,
            host, round, now, deadline, rc, shutdownRc, exitStatus, failedCmd,
            probes, sleeps, deadRounds, shutdownCalls, deadlineSets, lastOp,
            aliveProbes, downHosts, probed, firstRoundEnd>>

syVars == <<TASKS, dirs, spc, run, k, tasks, clock, files, syncExit, invoked,
            outcome, summary, logpaths, openCount, openedPaths>>

vars == <<sdVars, syVars>>

NoDeadline == -1
NoExit == -1
NoRc == 1000

\* Exit statuses a command can return: 0, ordinary failures, and a negative
\* returncode (Popen reports a child killed by signal n as -n).
ReturnCodes == {0, 1, 2, -9}

\* What Popen + communicate can do: raise OSError (the command cannot be
\* launched) or give the returncode of the command.
OSError == [launched |-> FALSE, returncode |-> NoRc]
SubprocessResults ==
    {[launched |-> TRUE, returncode |-> r] : r \in ReturnCodes} \cup {OSError}

\* The other script is not running.
SyncIdle ==
    /\ TASKS = <<>>
    /\ dirs = {}
    /\ spc = "idle"
    /\ run = 0
    /\ k = 0
    /\ tasks = <<>>
    /\ clock = 0
    /\ files = <<>>
    /\ syncExit = NoExit
    /\ invoked = <<>>
    /\ outcome = <<>>
    /\ summary = <<>>
    /\ logpaths = <<>>
    /\ openCount = 0
    /\ openedPaths = {}

ShutdownIdle ==
    /\ REQUIRED_OFFLINE_SECONDS = 0
    /\ POLLING_INTERVAL_SECONDS = 0
    /\ nHosts = 0
    /\ pc = "idle"
    /\ host = 0
    /\ round = 0
    /\ now = 0
    /\ deadline = NoDeadline
    /\ rc = NoRc
    /\ shutdownRc = NoRc
    /\ exitStatus = NoExit
    /\ failedCmd = "none"
    /\ probes = 0
    /\ sleeps = 0
    /\ deadRounds = 0
    /\ shutdownCalls = 0
    /\ deadlineSets = 0
    /\ lastOp = "none"
    /\ aliveProbes = 0
    /\ downHosts = {}
    /\ probed = <<>>
    /\ firstRoundEnd = NoDeadline

----------------------------------------------------------------------------
(***************************************************************************)
(* conditionalshutdown.py                                                  *)
(***************************************************************************)

\* Variant: >= in place of >.
ConfigAccepted_ge(required, interval) == required >= 2 * interval

\* assert REQUIRED_OFFLINE_SECONDS > 2*POLLING_INTERVAL_SECONDS
ConfigAccepted(required, interval) == required > 2 * interval

\* Variant: the OSError is swallowed and reported as a failed command.
run_subprocess_swallows(res) ==
    IF res.launched
    THEN [exits |-> FALSE, returncode |-> res.returncode]
    ELSE [exits |-> FALSE, returncode |-> 1]

\* run_subprocess, lines 121-133: what the caller gets from a result of
\* Popen + communicate.  OSError is caught, logged, and sys.exit(1) ends the
\* process; otherwise sp.returncode is returned.
run_subprocess(res) ==
    IF res.launched
    THEN [exits |-> FALSE, returncode |-> res.returncode]
    ELSE [exits |-> TRUE, returncode |-> NoRc]

\* Variant: a negative returncode counts as an answer (`if rc <= 0`).
host_responding_nonpositive(r) == r <= 0

\* Variant: the test on rc the wrong way round (`if rc:`).
host_responding_inverted(r) == r # 0

\* host_responding, lines 113-118: `if not rc: return True`, else False.
host_responding(r) == r = 0

\* Variant: a responding host is logged, the program does not exit.
exit_if_any_host_up_goes_on(responding) == FALSE

\* exit_if_any_host_up, lines 106-108: sys.exit(0) when the host responds.
exit_if_any_host_up(responding) == responding

\* 1 when the ping command itself reported a reply (exit status 0).
AliveResult(res) == IF res.launched /\ res.returncode = 0 THEN 1 ELSE 0

\* Variant: <= in place of <.
LoopContinues_le(t, d) == t <= d

\* Variant: the comparison the wrong way round.
LoopContinues_gt(t, d) == t > d

\* while time.time() < deadline
LoopContinues(t, d) == t < d

\* Variant: the required time is not added.
NewDeadline_now(t, required) == t

\* deadline = time.time() + REQUIRED_OFFLINE_SECONDS
NewDeadline(t, required) == t + required

\* Variant: main() sleeps before the first round.
main_first_step_sleep == "sleep"

\* main(), line 90: the first statement is exit_if_any_host_up().
main_first_step == "check"

\* Variant: the deadline is tested right after the sleep.
main_after_sleep_test == "test"

\* main(), lines 97-98: time.sleep is followed by exit_if_any_host_up().
main_after_sleep == "check"

\* Variant: the returncode of shutdown becomes the exit status.
main_exit_status_propagates(returncode) == returncode

\* main(), lines 99-100: the returncode is logged, main() returns and the
\* interpreter ends with status 0.
main_exit_status(returncode) == 0

Init ==
    /\ REQUIRED_OFFLINE_SECONDS \in 1..MaxRequired
    /\ POLLING_INTERVAL_SECONDS \in 1..MaxInterval
    /\ nHosts \in 0..MaxHosts
    /\ pc = "start"
    /\ host = 1
    /\ round = 0
    /\ now = 0
    /\ deadline = NoDeadline
    /\ rc = NoRc
    /\ shutdownRc = NoRc
    /\ exitStatus = NoExit
    /\ failedCmd = "none"
    /\ probes = 0
    /\ sleeps = 0
    /\ deadRounds = 0
    /\ shutdownCalls = 0
    /\ deadlineSets = 0
    /\ lastOp = "none"
    /\ aliveProbes = 0
    /\ downHosts = {}
    /\ probed = <<>>
    /\ firstRoundEnd = NoDeadline
    /\ SyncIdle

\* Module level, line 86: the assert runs when the script is loaded, before
\* main().  A failed assert ends the process with a traceback, status 1.
\* When it passes, main() starts the first round of exit_if_any_host_up.
AssertConfig ==
    /\ pc = "start"
    /\ IF ConfigAccepted(REQUIRED_OFFLINE_SECONDS, POLLING_INTERVAL_SECONDS)
       THEN /\ pc' = main_first_step
            /\ round' = 1
            /\ exitStatus' = exitStatus
       ELSE /\ pc' = "rejected"
            /\ round' = round
            /\ exitStatus' = 1
    /\ host' = 1
    /\ lastOp' = "assert"
    /\ UNCHANGED syVars
    /\ UNCHANGED <<REQUIRED_OFFLINE_SECONDS, POLLING_INTERVAL_SECONDS, nHosts,
                   now, deadline, rc, failedCmd, probes, sleeps, deadRounds,
                   shutdownCalls, deadlineSets, shutdownRc, aliveProbes,
                   downHosts, probed, firstRoundEnd>>

\* One iteration of the for loop of exit_if_any_host_up (lines 105-108):
\* host_responding(host) runs ping through run_subprocess.
\*   OSError       -> run_subprocess logs and calls sys.exit(1)
\*   returncode 0  -> "Exit program.", sys.exit(0)
\*   otherwise     -> the loop goes on with the next host
PingHost ==
    /\ pc = "check"
    /\ host <= nHosts
    /\ \E res \in SubprocessResults, d \in 0..MaxProbeDur :
          LET sp == run_subprocess(res)
              up == ~sp.exits /\ host_responding(sp.returncode)
          IN  /\ now' = now + d
              /\ probes' = probes + 1
              /\ lastOp' = "ping"
              /\ aliveProbes' = aliveProbes + AliveResult(res)
              /\ probed' = Append(probed, [host |-> host,
                                           alive |-> AliveResult(res) = 1])
              /\ failedCmd' = IF res.launched THEN failedCmd ELSE "ping"
              /\ rc' = IF sp.exits THEN rc ELSE sp.returncode
              /\ IF sp.exits
                 THEN /\ pc' = "fatal"
                      /\ exitStatus' = 1
                      /\ UNCHANGED <<host, downHosts>>
                 ELSE IF exit_if_any_host_up(up)
                 THEN /\ pc' = "aborted"
                      /\ exitStatus' = 0
                      /\ UNCHANGED <<host, downHosts>>
                 ELSE /\ pc' = "check"
                      /\ exitStatus' = exitStatus
                      /\ host' = host + 1
                      /\ downHosts' = downHosts \cup {host}
    /\ UNCHANGED syVars
    /\ UNCHANGED <<REQUIRED_OFFLINE_SECONDS, POLLING_INTERVAL_SECONDS, nHosts,
                   round, deadline, sleeps, deadRounds, shutdownCalls,
                   shutdownRc, deadlineSets, firstRoundEnd>>

\* exit_if_any_host_up returns: the for loop ran out of hosts.  After the
\* first round main() goes on to line 91, after a later one back to the
\* while test.
RoundAllDead ==
    /\ pc = "check"
    /\ host > nHosts
    /\ deadRounds' = deadRounds + 1
    /\ pc' = IF round = 1 THEN "deadline" ELSE "test"
    /\ lastOp' = "alldead"
    /\ firstRoundEnd' = IF deadRounds = 0 THEN now ELSE firstRoundEnd
    /\ UNCHANGED syVars
    /\ UNCHANGED <<REQUIRED_OFFLINE_SECONDS, POLLING_INTERVAL_SECONDS, nHosts,
                   host, round, now, deadline, rc, exitStatus, failedCmd,
                   probes, sleeps, shutdownCalls, deadlineSets, shutdownRc,
                   aliveProbes, downHosts, probed>>

\* Line 93: deadline = time.time() + REQUIRED_OFFLINE_SECONDS
ComputeDeadline ==
    /\ pc = "deadline"
    /\ deadline' = NewDeadline(now, REQUIRED_OFFLINE_SECONDS)
    /\ deadlineSets' = deadlineSets + 1
    /\ pc' = "test"
    /\ lastOp' = "deadline"
    /\ UNCHANGED syVars
    /\ UNCHANGED <<REQUIRED_OFFLINE_SECONDS, POLLING_INTERVAL_SECONDS, nHosts,
                   host, round, now, rc, exitStatus, failedCmd, probes,
                   sleeps, deadRounds, shutdownCalls, shutdownRc, aliveProbes,
                   downHosts, probed, firstRoundEnd>>

\* Line 95: while time.time() < deadline
LoopTest ==
    /\ pc = "test"
    /\ pc' = IF LoopContinues(now, deadline) THEN "sleep" ELSE "shutdown"
    /\ lastOp' = "test"
    /\ UNCHANGED syVars
    /\ UNCHANGED <<REQUIRED_OFFLINE_SECONDS, POLLING_INTERVAL_SECONDS, nHosts,
                   host, round, now, deadline, rc, exitStatus, failedCmd,
                   probes, sleeps, deadRounds, shutdownCalls, deadlineSets,
                   shutdownRc, aliveProbes, downHosts, probed, firstRoundEnd>>

\* Lines 97-98: time.sleep(POLLING_INTERVAL_SECONDS), then the next round of
\* exit_if_any_host_up starts.  The sleep lasts at least the interval.
Sleep ==
    /\ pc = "sleep"
    /\ \E over \in 0..MaxOversleep :
          now' = now + POLLING_INTERVAL_SECONDS + over
    /\ sleeps' = sleeps + 1
    /\ round' = round + 1
    /\ host' = 1
    /\ probed' = <<>>
    /\ pc' = main_after_sleep
    /\ lastOp' = "sleep"
    /\ UNCHANGED syVars
    /\ UNCHANGED <<REQUIRED_OFFLINE_SECONDS, POLLING_INTERVAL_SECONDS, nHosts,
                   deadline, rc, exitStatus, failedCmd, probes, deadRounds,
                   shutdownCalls, deadlineSets, shutdownRc, aliveProbes,
                   downHosts, firstRoundEnd>>

\* Lines 99-100: run_subprocess(['/sbin/shutdown', '-p', 'now']); the
\* returncode is logged, main() returns and the process ends with status 0.
\* OSError: run_subprocess calls sys.exit(1).
Shutdown ==
    /\ pc = "shutdown"
    /\ shutdownCalls' = shutdownCalls + 1
    /\ lastOp' = "shutdown"
    /\ \E res \in SubprocessResults :
          LET sp == run_subprocess(res)
          IN  /\ failedCmd' = IF res.launched THEN failedCmd ELSE "shutdown"
              /\ IF sp.exits
                 THEN /\ pc' = "fatal"
                      /\ exitStatus' = 1
                      /\ shutdownRc' = shutdownRc
                 ELSE /\ pc' = "committed"
                      /\ exitStatus' = main_exit_status(sp.returncode)
                      /\ shutdownRc' = sp.returncode
    /\ UNCHANGED syVars
    /\ UNCHANGED <<REQUIRED_OFFLINE_SECONDS, POLLING_INTERVAL_SECONDS, nHosts,
                   host, round, now, deadline, rc, probes, sleeps, deadRounds,
                   deadlineSets, aliveProbes, downHosts, probed,
                   firstRoundEnd>>

Next ==
    \/ AssertConfig
    \/ PingHost
    \/ RoundAllDead
    \/ ComputeDeadline
    \/ LoopTest
    \/ Sleep
    \/ Shutdown

Spec == Init /\ [][Next]_vars

\* The script is one sequential process that the system keeps running: a
\* step that can be taken is taken.
FairSpec == Spec /\ WF_vars(Next)

----------------------------------------------------------------------------
(***************************************************************************)
(* Properties of conditionalshutdown.py                                    *)
(***************************************************************************)

Aborted == pc = "aborted"
Committed == pc = "committed"
Rejected == pc = "rejected"
Fatal == pc = "fatal"

\* C1: once a ping of any round (the first check or a later poll) has come
\* back with exit status 0, the program is in ABORTED (exit status 0) and
\* stays there, and the shutdown command has not been called and is not
\* called.
C1_AliveAborts ==
    aliveProbes > 0 =>
        /\ Aborted
        /\ exitStatus = 0
        /\ shutdownCalls = 0
        /\ shutdownRc = NoRc

\* C1 witness: the second host answers in a poll after the first check.
C1_Witness ==
    /\ aliveProbes > 0
    /\ Aborted
    /\ round >= 2
    /\ host = 2
    /\ sleeps >= 1

\* C2: in a run in which no ping ever exits with 0 and every command can be
\* launched, the program reaches COMMITTED having called the shutdown
\* command once; the shutdown command is never called twice.
C2_AllDeadCommits ==
    /\ <>( \/ aliveProbes > 0
           \/ failedCmd # "none"
           \/ Rejected
           \/ (Committed /\ shutdownCalls = 1 /\ exitStatus = 0) )
    /\ [](shutdownCalls <= 1)

\* C2 witness: COMMITTED after polls in which every host was down.
C2_Witness ==
    /\ Committed
    /\ shutdownCalls = 1
    /\ aliveProbes = 0
    /\ nHosts >= 2
    /\ sleeps >= 2
    /\ probes = nHosts * round

\* C3: a host that was down in an earlier round and answers at a poll makes
\* the program abort in that very step, and nothing follows: no ping, no
\* sleep, no shutdown.
C3_AbortAtPoll ==
    /\ [][ (round >= 2 /\ host \in downHosts /\ aliveProbes' > aliveProbes)
              => (Aborted' /\ exitStatus' = 0 /\ shutdownCalls' = 0) ]_vars
    /\ [][ Aborted => (Aborted' /\ UNCHANGED <<probes, sleeps, shutdownCalls>>)
         ]_vars

\* C3 witness: the abort happens at a poll less than one polling interval
\* before the deadline, on a host that had been down in every earlier round.
C3_Witness ==
    /\ Aborted
    /\ round >= 3
    /\ host \in downHosts
    /\ aliveProbes = 1
    /\ now < deadline
    /\ deadline - now < POLLING_INTERVAL_SECONDS

\* C4: with REQUIRED_OFFLINE_SECONDS <= 2*POLLING_INTERVAL_SECONDS the
\* program ends at the assert, with a failure status, before any ping, sleep
\* or shutdown; it gets past the assert only with
\* REQUIRED_OFFLINE_SECONDS > 2*POLLING_INTERVAL_SECONDS.
C4_ConfigRejected ==
    /\ REQUIRED_OFFLINE_SECONDS <= 2 * POLLING_INTERVAL_SECONDS =>
          /\ pc \in {"start", "rejected"}
          /\ probes = 0 /\ sleeps = 0 /\ shutdownCalls = 0 /\ round = 0
    /\ Rejected =>
          /\ exitStatus = 1
          /\ REQUIRED_OFFLINE_SECONDS <= 2 * POLLING_INTERVAL_SECONDS
    /\ pc \notin {"start", "rejected"} =>
          REQUIRED_OFFLINE_SECONDS > 2 * POLLING_INTERVAL_SECONDS

\* C4 witness: required = 5, interval = 3 (the spec's 50 and 30, in tens of
\* seconds) has been rejected.
C4_Witness ==
    /\ Rejected
    /\ exitStatus = 1
    /\ POLLING_INTERVAL_SECONDS = 3
    /\ REQUIRED_OFFLINE_SECONDS = 5

\* C5: when the shutdown command is about to be called or has been called,
\* at least two rounds of exit_if_any_host_up have returned with every host
\* down (the first check and at least one poll), whatever the pings'
\* durations were.
C5_TwoRoundsBeforeShutdown ==
    (pc = "shutdown" \/ Committed \/ shutdownCalls > 0) =>
        /\ deadRounds >= 2
        /\ sleeps >= 1
        /\ REQUIRED_OFFLINE_SECONDS > 2 * POLLING_INTERVAL_SECONDS

\* C5 witness: COMMITTED after exactly two rounds, the pings of the one poll
\* having taken the rest of the window.
C5_Witness ==
    /\ Committed
    /\ deadRounds = 2
    /\ nHosts >= 1
    /\ probes = 2 * nHosts

\* C8: when a command cannot be launched the program is in the fatal state
\* with exit status 1 and nothing follows; the host whose ping could not be
\* launched is not counted as down, the round is not completed, and after a
\* failed ping the shutdown command is not called.
C8_LaunchFailureFatal ==
    /\ [](failedCmd # "none" =>
            /\ Fatal
            /\ exitStatus = 1
            /\ (failedCmd = "ping" =>
                   /\ shutdownCalls = 0
                   /\ host <= nHosts
                   /\ deadRounds < round))
    /\ [][ Fatal => (Fatal' /\ UNCHANGED <<probes, sleeps, shutdownCalls,
                                          deadRounds, downHosts>>) ]_vars

\* C8 witness: at a poll the first host was found down and the ping of the
\* second host could not be launched.
C8_Witness ==
    /\ Fatal
    /\ exitStatus = 1
    /\ failedCmd = "ping"
    /\ host = 2
    /\ round >= 2
    /\ probes = nHosts * (round - 1) + 2

----------------------------------------------------------------------------
(***************************************************************************)
(* syncdir_rsynctasks.py                                                   *)
(***************************************************************************)

\* A path is a sequence of characters; "/" is the separator.
SrcDir == <<"/", "s">>
TgtDir == <<"/", "t">>
LogDir == <<"/", "l">>
NoDir == <<"/", "f">>

\* The entries TASKS can hold.
TaskNames == {"home", "photos", "audio", "user_home"}
SourcePaths == {SrcDir, SrcDir \o <<"/">>, NoDir}
TargetPaths == {TgtDir, TgtDir \o <<"/">>, NoDir}
TaskTuples ==
    [name : TaskNames, source_dir : SourcePaths, target_dir : TargetPaths]

\* Every task of the list has a name of its own, as in lines 40-71.
DistinctNames(ts) ==
    \A i, j \in 1..Len(ts) : ts[i].name = ts[j].name => i = j

\* source_dir.endswith("/")
EndsWithSlash(p) == Len(p) > 0 /\ p[Len(p)] = "/"

\* os.path.isdir(p): a trailing separator does not matter to the lookup.
StripSlash(p) ==
    IF Len(p) > 1 /\ EndsWithSlash(p) THEN SubSeq(p, 1, Len(p) - 1) ELSE p
isdir(p, existing) == StripSlash(p) \in existing

\* Variant: the check of the trailing slash is missing.
InitCheck_no_slash_check(t, existing) ==
    IF ~isdir(t.source_dir, existing) THEN "source is no directory"
    ELSE IF ~isdir(t.target_dir, existing) THEN "target is no directory"
    ELSE IF ~isdir(LogDir, existing) THEN "assert logfile_dir"
    ELSE "ok"

\* SyncDirTask.__init__, lines 93-105: the checks, in the order of the code.
\* "ok" or the check that ends the process.
InitCheck(t, existing) ==
    IF ~isdir(t.source_dir, existing) THEN "source is no directory"
    ELSE IF ~isdir(t.target_dir, existing) THEN "target is no directory"
    ELSE IF EndsWithSlash(t.source_dir) THEN "source has trailing slash"
    ELSE IF ~isdir(LogDir, existing) THEN "assert logfile_dir"
    ELSE "ok"

NoValue == -1

\* The object __init__ leaves behind: _duration and _rsync_returncode are
\* set by _run_rsync only.
NewTask(t) ==
    [name |-> t.name, _source_dir |-> t.source_dir,
     _target_dir |-> t.target_dir, _logfile_dir |-> LogDir,
     _duration |-> NoValue, _rsync_returncode |-> NoRc]

\* timestr(): strftime("%Y%m%d-%H%M%S", localtime()), the time cut to the
\* second.
TicksPerSecond ==
    2
timestr(t) == t \div TicksPerSecond

\* logfname = "rsync_stdouterr_%s_%s.log" % (self.name, timestr())
logfname(name, t) == <<"rsync_stdouterr", name, timestr(t)>>

\* Exit statuses of rsync, and what call() can do.
RsyncReturnCodes == {0, 23}
CallResults ==
    {[launched |-> TRUE, returncode |-> r] : r \in RsyncReturnCodes}
        \cup {OSError}

\* Lines 145-147: the two lines _run_rsync writes after rsync has returned.
SummaryLines(rcode, duration) ==
    << <<"wrapper info: rsync exitcode", rcode>>,
       <<"wrapper info: rsync runtime (walltime)", duration>> >>

\* What rsync writes through the descriptor it inherits (stdout and stderr
\* of run n, task j); nothing when it could not be started.
RsyncOutput(n, j, res) ==
    IF res.launched THEN << <<"rsync output", n, j>> >> ELSE << >>

\* Variant: a returncode other than 0 ends the program.
run_rsync_exits_on_error(res) ==
    IF res.launched
    THEN [writes_summary |-> TRUE, exits |-> res.returncode # 0]
    ELSE [writes_summary |-> FALSE, exits |-> FALSE]

\* Variant: OSError ends the program, as run_subprocess of the other script
\* does.
run_rsync_oserror_fatal(res) ==
    IF res.launched
    THEN [writes_summary |-> TRUE, exits |-> FALSE]
    ELSE [writes_summary |-> FALSE, exits |-> TRUE]

\* _run_rsync, lines 132-147: what follows call().  A returncode, 0 or not,
\* is logged and the summary is written; OSError is logged and the method
\* returns.  The process goes on in both cases.
run_rsync(res) ==
    IF res.launched
    THEN [writes_summary |-> TRUE, exits |-> FALSE]
    ELSE [writes_summary |-> FALSE, exits |-> FALSE]

\* Updating a function that may not have the key yet (open(..., "w") creates
\* or truncates the file).
WriteFile(fs, path, contents) ==
    [q \in (DOMAIN fs) \cup {path} |-> IF q = path THEN contents ELSE fs[q]]

MaxTasks ==
    2
MaxRsyncDur ==
    1

SyncInit ==
    /\ ShutdownIdle
    /\ \E n \in 1..MaxTasks : TASKS \in [1..n -> TaskTuples]
    /\ DistinctNames(TASKS)
    /\ dirs \in {{SrcDir, TgtDir, LogDir}, {SrcDir, TgtDir}}
    /\ spc = "setup"
    /\ run = 1
    /\ k = 1
    /\ tasks = <<>>
    /\ clock \in 0..(TicksPerSecond - 1)
    /\ files = <<>>
    /\ syncExit = NoExit
    /\ invoked = <<>>
    /\ outcome = <<>>
    /\ summary = <<>>
    /\ logpaths = <<>>
    /\ openCount = 0
    /\ openedPaths = {}

\* Line 77, one element of the list comprehension: SyncDirTask(n, s, t).
\* A failed check calls sys.exit(1) (the assert ends the process with
\* status 1 too).  After the last element the loop over the tasks starts.
SetupTask ==
    /\ spc = "setup"
    /\ k <= Len(TASKS)
    /\ IF InitCheck(TASKS[k], dirs) = "ok"
       THEN /\ tasks' = Append(tasks, NewTask(TASKS[k]))
            /\ IF k = Len(TASKS)
               THEN spc' = "run" /\ k' = 1
               ELSE spc' = "setup" /\ k' = k + 1
            /\ syncExit' = syncExit
       ELSE /\ spc' = "fatal"
            /\ syncExit' = 1
            /\ UNCHANGED <<tasks, k>>
    /\ UNCHANGED sdVars
    /\ UNCHANGED <<TASKS, dirs, run, clock, files, invoked, outcome, summary,
                   logpaths, openCount, openedPaths>>

\* Variant: a task whose rsync did not return 0 is run again.
NextTask_retry(j, res) ==
    IF res.launched /\ res.returncode = 0 THEN j + 1 ELSE j

\* Lines 79-80, `for t in tasks`: the task after task j, whatever the
\* result of task j was.
NextTask(j, res) == j + 1

\* Lines 79-80, one iteration: t.run() -> _run_rsync().  The log file is
\* opened for writing, rsync is called; on OSError _run_rsync returns, else
\* duration and returncode are stored and the summary is written.  In both
\* cases run() returns and the loop goes on.
RunTask ==
    /\ spc = "run"
    /\ k <= Len(tasks)
    /\ \E res \in CallResults, d \in 0..MaxRsyncDur :
          LET path == logfname(tasks[k].name, clock)
              h == run_rsync(res)
              lines == IF h.writes_summary
                       THEN SummaryLines(res.returncode, d) ELSE << >>
          IN  /\ openCount' = openCount + 1
              /\ openedPaths' = openedPaths \cup {path}
              /\ logpaths' = Append(logpaths, path)
              /\ files' = WriteFile(files, path,
                                    RsyncOutput(run, k, res) \o lines)
              /\ clock' = clock + d
              /\ invoked' = Append(invoked, k)
              /\ outcome' = Append(outcome, res)
              /\ summary' = Append(summary, lines)
              /\ tasks' = IF h.writes_summary
                          THEN [tasks EXCEPT ![k]._duration = d,
                                             ![k]._rsync_returncode = res.returncode]
                          ELSE tasks
              /\ IF h.exits
                 THEN spc' = "fatal" /\ syncExit' = 1 /\ k' = k
                 ELSE /\ spc' = "run"
                      /\ syncExit' = syncExit
                      /\ k' = NextTask(k, res)
    /\ UNCHANGED sdVars
    /\ UNCHANGED <<TASKS, dirs, run>>

\* Lines 81-84: the loop is over, main() returns, the process ends.
Finish ==
    /\ spc = "run"
    /\ k > Len(tasks)
    /\ spc' = "done"
    /\ syncExit' = 0
    /\ UNCHANGED sdVars
    /\ UNCHANGED <<TASKS, dirs, run, k, tasks, clock, files, invoked, outcome,
                   summary, logpaths, openCount, openedPaths>>

\* The script is started again (by hand or by cron) after a run has ended:
\* a new process, the same TASKS and the same log directory.
RunAgain ==
    /\ spc = "done"
    /\ run = 1
    /\ run' = 2
    /\ spc' = "setup"
    /\ k' = 1
    /\ tasks' = <<>>
    /\ syncExit' = NoExit
    /\ invoked' = <<>>
    /\ outcome' = <<>>
    /\ summary' = <<>>
    /\ logpaths' = <<>>
    /\ \E d \in 0..MaxRsyncDur : clock' = clock + d
    /\ UNCHANGED sdVars
    /\ UNCHANGED <<TASKS, dirs, files, openCount, openedPaths>>

\* One run of the script.
SyncNext ==
    \/ SetupTask
    \/ RunTask
    \/ Finish

SyncSpec == SyncInit /\ [][SyncNext]_vars

\* The script run, and run once more into the same log directory.
RerunNext ==
    \/ SetupTask
    \/ RunTask
    \/ Finish
    \/ RunAgain

RerunSpec == SyncInit /\ [][RerunNext]_vars

----------------------------------------------------------------------------
(***************************************************************************)
(* Properties of syncdir_rsynctasks.py                                     *)
(***************************************************************************)

\* call() returned an exit status other than 0 for task j of this run.
Nonzero(j) == outcome[j].launched /\ outcome[j].returncode # 0

\* call() raised OSError for task j of this run.
LaunchFailed(j) == ~outcome[j].launched

\* The tasks run so far are the first ones of the list, in order, each once.
InListOrder == invoked = [j \in 1..Len(invoked) |-> j]

\* A task that breaks a precondition of SyncDirTask, stated on the paths.
BadTask(t) ==
    \/ EndsWithSlash(t.source_dir)
    \/ StripSlash(t.source_dir) \notin dirs
    \/ StripSlash(t.target_dir) \notin dirs

\* C6: when rsync has returned a nonzero status for some task, the program
\* has not aborted (it is running or has ended with status 0); every task
\* before it and, at the end of the run, every task after it has had its
\* rsync called once, and each task whose rsync could be started has its own
\* exit-code and runtime lines as the last two lines of its own log file.
C6_FailureIndependence ==
    (\E i \in 1..Len(outcome) : Nonzero(i)) =>
        /\ spc \in {"run", "done"}
        /\ syncExit \in {NoExit, 0}
        /\ InListOrder
        /\ Len(invoked) = k - 1
        /\ (spc = "done" => Len(invoked) = Len(TASKS))
        /\ \A j \in 1..Len(outcome) :
              outcome[j].launched =>
                 /\ summary[j] = SummaryLines(outcome[j].returncode,
                                              tasks[j]._duration)
                 /\ logpaths[j] \in DOMAIN files
                 /\ files[logpaths[j]] =
                        RsyncOutput(run, j, outcome[j]) \o summary[j]
                 /\ \A i \in 1..Len(outcome) :
                        logpaths[i] = logpaths[j] => i = j

\* C6 witness: the run is over, the first of two tasks returned a nonzero
\* status and the second one ran and returned 0.
C6_Witness ==
    /\ spc = "done"
    /\ Len(TASKS) = 2
    /\ Len(outcome) = 2
    /\ Nonzero(1)
    /\ outcome[2].launched /\ outcome[2].returncode = 0
    /\ Len(summary[2]) = 2

\* C7: when a task of the list - whichever, the last included - has a source
\* with a trailing separator or a source or target that is no directory, no
\* log file is ever opened and no rsync is ever called in that run, the
\* construction never gets past that task, and the program ends with
\* status 1, never with 0.
C7_FailFastConstruction ==
    (\E j \in 1..Len(TASKS) : BadTask(TASKS[j])) =>
        /\ spc \in {"setup", "fatal"}
        /\ invoked = << >> /\ openCount = 0 /\ files = << >>
        /\ \A j \in 1..Len(tasks) : ~BadTask(TASKS[j])
        /\ (spc = "fatal" =>
               syncExit = 1 /\ (BadTask(TASKS[k]) \/ LogDir \notin dirs))
        /\ (spc = "setup" => \E j \in k..Len(TASKS) : BadTask(TASKS[j]))
        /\ syncExit # 0

\* C7 witness: the last of two tasks has a source with a trailing separator
\* (both of its paths are directories), the first one is in order.
C7_Witness ==
    /\ spc = "fatal"
    /\ syncExit = 1
    /\ Len(TASKS) = 2
    /\ ~BadTask(TASKS[1])
    /\ EndsWithSlash(TASKS[2].source_dir)
    /\ isdir(TASKS[2].source_dir, dirs)
    /\ isdir(TASKS[2].target_dir, dirs)
    /\ LogDir \in dirs

\* C9: a task whose rsync could not be launched gets no summary lines (its
\* log file stays empty, the object gets no duration and no returncode); the
\* program has not exited with a failure, goes on in list order, and at the
\* end of the run every task of the list has had its rsync called.
C9_LaunchFailureSkipsTask ==
    (\E i \in 1..Len(outcome) : LaunchFailed(i)) =>
        /\ spc \in {"run", "done"}
        /\ syncExit \in {NoExit, 0}
        /\ InListOrder
        /\ Len(invoked) = k - 1
        /\ (spc = "done" => Len(invoked) = Len(TASKS))
        /\ \A j \in 1..Len(outcome) :
              LaunchFailed(j) =>
                 /\ summary[j] = << >>
                 /\ files[logpaths[j]] = << >>
                 /\ tasks[j]._duration = NoValue
                 /\ tasks[j]._rsync_returncode = NoRc

\* C9 witness: the run is over, rsync could not be launched for the first of
\* two tasks and ran for the second.
C9_Witness ==
    /\ spc = "done"
    /\ Len(TASKS) = 2
    /\ Len(outcome) = 2
    /\ LaunchFailed(1)
    /\ outcome[2].launched
    /\ Len(summary[2]) = 2

\* C10: no two rsync invocations, of one run or of two, open the same log
\* file: there are as many file names opened as open() calls.
C10_LogFilesNeverCollide ==
    Cardinality(openedPaths) = openCount

----------------------------------------------------------------------------
(***************************************************************************)
(* Further properties of conditionalshutdown.py                            *)
(***************************************************************************)

\* No ping of the round since the last sleep got an answer.
AllProbedDead == \A i \in 1..Len(probed) : ~probed[i].alive

\* The round since the last sleep has returned with every host down.
RoundReturned ==
    pc \in {"deadline", "test", "sleep", "shutdown", "committed"}

\* C11: within a round the hosts are pinged in the order of the list, each
\* once; a ping that gets an answer is the last one of its round, so no
\* host listed after it is pinged; the round returns with all hosts down
\* only after every host of the list has been pinged and none answered.
C11_OrderedShortCircuit ==
    /\ \A i \in 1..Len(probed) : probed[i].host = i
    /\ Len(probed) <= nHosts
    /\ \A i \in 1..(Len(probed) - 1) : ~probed[i].alive
    /\ (Aborted => /\ probed[Len(probed)].alive
                   /\ Len(probed) = host)
    /\ (RoundReturned => Len(probed) = nHosts /\ AllProbedDead)

\* C11 witness: at a poll the first of two hosts answered; the program has
\* ended and the second host was not pinged in that round.
C11_Witness ==
    /\ Aborted
    /\ nHosts = 2
    /\ round >= 2
    /\ Len(probed) = 1
    /\ probed[1].alive

\* C12 as amended: the exit status is 0 in ABORTED and in COMMITTED, whatever
\* the shutdown command returned; it is 1 exactly when a command could not
\* be launched or the assert on the configuration failed; and the process
\* has an exit status exactly in these four final states.
C12_ExitStatus ==
    /\ (Aborted \/ Committed) => exitStatus = 0
    /\ exitStatus = 1 <=> (failedCmd # "none" \/ Rejected)
    /\ exitStatus # NoExit <=> (Aborted \/ Committed \/ Fatal \/ Rejected)
    /\ exitStatus \in {NoExit, 0, 1}

\* C12 witness: COMMITTED with a shutdown command that returned a nonzero
\* status.
C12_Witness ==
    /\ Committed
    /\ shutdownRc \notin {0, NoRc}
    /\ exitStatus = 0

\* C12 as claimed: the exit status is 0 in ABORTED and COMMITTED and is 1
\* exactly when an external command could not be launched.
C12_ExitOneOnlyOnLaunchFailure ==
    /\ (Aborted \/ Committed) => exitStatus = 0
    /\ exitStatus = 1 <=> failedCmd # "none"

\* C13: as long as the first round has not returned there has been no sleep
\* and no deadline, so the first ping is not preceded by a sleep, and a host
\* that answers in the first round ends the program with neither.
C13_FirstCheckImmediate ==
    deadRounds = 0 =>
        /\ sleeps = 0
        /\ deadlineSets = 0
        /\ deadline = NoDeadline
        /\ round <= 1
        /\ probes = Len(probed)

\* C13 witness: the second host answered in the first round.
C13_Witness ==
    /\ Aborted
    /\ deadRounds = 0
    /\ sleeps = 0
    /\ deadline = NoDeadline
    /\ host = 2
    /\ probes = 2

\* C14: a ping that could be launched ends the program as alive exactly when
\* its exit status is 0; with any other status, negative ones included, the
\* host is counted as down, the program has not exited, and the round goes
\* on with the next host.
C14_AliveIffZero ==
    [][ (probes' = probes + 1 /\ failedCmd' = "none") =>
            /\ (rc' = 0 <=> Aborted')
            /\ (rc' # 0 => /\ pc' = "check"
                           /\ host' = host + 1
                           /\ host \in downHosts'
                           /\ exitStatus' = NoExit) ]_vars

\* C14 witness: the first host's ping has ended with a negative status and
\* the round goes on with the second host.
C14_Witness ==
    /\ lastOp = "ping"
    /\ rc < 0
    /\ pc = "check"
    /\ host = 2
    /\ nHosts >= 2
    /\ 1 \in downHosts

\* C15: `deadline` is assigned once, the time at which the first round
\* returned plus REQUIRED_OFFLINE_SECONDS, and keeps that value; the
\* shutdown command is called only with now >= deadline, that is at least
\* REQUIRED_OFFLINE_SECONDS after the first round returned.
C15_DeadlineOnceAndRespected ==
    /\ [](deadlineSets <= 1)
    /\ [](deadline # NoDeadline =>
             /\ deadlineSets = 1
             /\ deadline = firstRoundEnd + REQUIRED_OFFLINE_SECONDS)
    /\ []((pc = "shutdown" \/ shutdownCalls > 0) =>
             /\ deadline # NoDeadline
             /\ now >= deadline
             /\ now - firstRoundEnd >= REQUIRED_OFFLINE_SECONDS)
    /\ [][deadline # NoDeadline => deadline' = deadline]_vars

\* C15 witness: the shutdown command has been called exactly at the
\* deadline, after several polls.
C15_Witness ==
    /\ Committed
    /\ now = deadline
    /\ firstRoundEnd > 0
    /\ sleeps >= 2

\* C17: the shutdown call follows the while test, and the while test follows
\* a round that returned with every host down (or, the first time, the
\* assignment of the deadline after such a round): no sleep and no ping in
\* between.  A sleep is never followed by the while test but by a round, even
\* when the deadline has passed, and a host that answers in that round ends
\* the program without shutdown.
C17_RoundBeforeShutdown ==
    /\ [][lastOp' = "shutdown" => lastOp = "test"]_vars
    /\ [][lastOp' = "test" => lastOp \in {"alldead", "deadline"}]_vars
    /\ [][lastOp' = "deadline" => lastOp = "alldead"]_vars
    /\ [][lastOp = "sleep" =>
              \/ lastOp' = "ping"
              \/ (nHosts = 0 /\ lastOp' = "alldead")]_vars
    /\ []((pc = "shutdown" \/ shutdownCalls > 0) =>
              Len(probed) = nHosts /\ AllProbedDead)
    /\ []((Aborted /\ deadline # NoDeadline /\ now >= deadline) =>
              shutdownCalls = 0 /\ exitStatus = 0)

\* C17 witness: a host answered in the round after a sleep during which the
\* deadline passed; the program has ended without shutdown.
C17_Witness ==
    /\ Aborted
    /\ deadline # NoDeadline
    /\ now - MaxProbeDur >= deadline
    /\ sleeps >= 2
    /\ shutdownCalls = 0

\* ceil(a / b) for b > 0
CeilDiv(a, b) == (a + b - 1) \div b

Terminated == Aborted \/ Committed \/ Fatal \/ Rejected

\* C18: the number of polls after the first check never exceeds
\* ceil(REQUIRED_OFFLINE_SECONDS / POLLING_INTERVAL_SECONDS), and the program
\* reaches a final state.
C18_BoundedPolls ==
    /\ [](sleeps <= CeilDiv(REQUIRED_OFFLINE_SECONDS,
                            POLLING_INTERVAL_SECONDS))
    /\ [](round <= 1 + CeilDiv(REQUIRED_OFFLINE_SECONDS,
                               POLLING_INTERVAL_SECONDS))
    /\ <>Terminated

\* C18 witness: COMMITTED after exactly ceil(required / interval) polls, with
\* a required time that is no multiple of the interval.
C18_Witness ==
    /\ Committed
    /\ sleeps = CeilDiv(REQUIRED_OFFLINE_SECONDS, POLLING_INTERVAL_SECONDS)
    /\ REQUIRED_OFFLINE_SECONDS % POLLING_INTERVAL_SECONDS # 0
    /\ nHosts >= 1

----------------------------------------------------------------------------
(***************************************************************************)
(* Further properties of syncdir_rsynctasks.py                             *)
(***************************************************************************)

\* C16: rsync is called for the tasks in the order of the list, one call and
\* one log file per task: the calls made so far are those of the first
\* tasks, no task twice, also after a nonzero status or a launch failure;
\* at the end of the run every task has been called exactly once.
C16_ListOrderOnce ==
    /\ InListOrder
    /\ Len(outcome) = Len(invoked)
    /\ openCount = Len(invoked)
    /\ Len(invoked) <= Len(TASKS)
    /\ (spc = "run" => k = Len(invoked) + 1)
    /\ (spc = "done" => invoked = [j \in 1..Len(TASKS) |-> j])
    /\ (spc \in {"setup", "fatal"} => invoked = << >>)

\* C16 witness: the run is over; the first task returned a nonzero status,
\* the second could not be launched; each was called once.
C16_Witness ==
    /\ spc = "done"
    /\ Len(TASKS) = 2
    /\ Nonzero(1)
    /\ LaunchFailed(2)
    /\ invoked = <<1, 2>>

====
